---- MODULE Spec2Model ----
(***************************************************************************)
(* Model of pyeloqua's Bulk job builder (src/pyeloqua/bulk.py).            *)
(*                                                                         *)
(* Python strings are TLA+ strings; str.replace and str.format are         *)
(* computed character by character.  Python's None is the string "None",   *)
(* which is also what '%s' and str.format render it as.  Numeric ids       *)
(* (obj_id, list_id, model_id) are held as their decimal rendering: the    *)
(* code only tests them against None and formats them into strings.        *)
(* Objects that Python shares by reference (the job dictionaries and the   *)
(* field dictionaries of one fetched catalog) live at locations of a heap. *)
(***************************************************************************)
EXTENDS Integers, Sequences, FiniteSets, TLC

VARIABLES
  heap,   \* location -> job dictionary; location "BLANK_JOB" is the module constant
  ref,    \* Bulk instance -> location its self.job refers to
  last    \* observation of the last call: arguments, requests issued, outcome

vars == <<heap, ref, last>>

None == "None"

\* field_input is a list or None
NoInput == [given |-> FALSE, names |-> <<>>]
Input(names) == [given |-> TRUE, names |-> names]

(***************************************************************************)
(* Bounds of the model                                                     *)
(***************************************************************************)
MaxFields == 2     \* a call names at most as many fields as job.fields is short of this
MaxFilters == 2    \* filter calls are taken while job.filters is shorter than this
MaxPages == 3      \* longest page sequence a catalog is served as

Bulks == {"a", "b"}

(***************************************************************************)
(* Module constants of bulk.py                                             *)
(***************************************************************************)
BLANK_JOB ==
  [filters |-> <<>>, fields |-> <<>>, job_type |-> None, elq_object |-> None,
   obj_id |-> None, act_type |-> None, options |-> <<>>]

\* a parent-id table that forgets events
ParentIdForCustomObjectsOnly == {"customobjects"}
OBJECT_REQ_ID == {"customobjects", "events"}

OBJECT_REQ_TYPE == {"activities"}

ELQ_OBJECTS == {"accounts", "activities", "contacts", "customobjects",
                "emailaddresses", "events"}

bulk_base == "https://secure.eloqua.com/api/bulk/2.0"

(***************************************************************************)
(* Strings                                                                 *)
(***************************************************************************)
Char(s, i) == SubSeq(s, i, i)

\* str.replace(old, new): every non-overlapping occurrence, left to right
RECURSIVE str_replace(_, _, _)
str_replace(s, old, new) ==
  IF Len(s) < Len(old) THEN s
  ELSE IF SubSeq(s, 1, Len(old)) = old
       THEN new \o str_replace(SubSeq(s, Len(old) + 1, Len(s)), old, new)
       ELSE Char(s, 1) \o str_replace(SubSeq(s, 2, Len(s)), old, new)

(***************************************************************************)
(* The heap of job dictionaries                                            *)
(***************************************************************************)
Locs == {"BLANK_JOB"} \cup Bulks

\* deepcopy(BLANK_JOB) builds a new dictionary that only this instance holds
SharedTemplate(b) == "BLANK_JOB"
deepcopy(b) == b

Job(b) == heap[ref[b]]

Jobs == [b \in Bulks |-> Job(b)]

\* self.job[...] = ... and self.job[...].extend(...): a write through the reference
Store(b, job) == heap' = [heap EXCEPT ![ref[b]] = job]

Observe(op, b, args, requests, outcome, error, result) ==
  last' = [op |-> op, bulk |-> b, args |-> args, requests |-> requests,
           outcome |-> outcome, error |-> error, result |-> result,
           before |-> Jobs, template |-> heap["BLANK_JOB"]]

NoError == [class |-> None, msg |-> None]
Raise(class, msg) == [class |-> class, msg |-> msg]

Init ==
  /\ heap = [l \in Locs |-> BLANK_JOB]
  /\ ref = [b \in Bulks |-> deepcopy(b)]
  /\ last = [op |-> "__init__", bulk |-> None, args |-> <<>>, requests |-> <<>>,
             outcome |-> "ok", error |-> NoError, result |-> None,
             before |-> [b \in Bulks |-> BLANK_JOB], template |-> BLANK_JOB]

(***************************************************************************)
(* reset                                                                   *)
(***************************************************************************)
reset(b) ==
  /\ ref' = [ref EXCEPT ![b] = deepcopy(b)]
  /\ heap' = [heap EXCEPT ![deepcopy(b)] = heap["BLANK_JOB"]]
  /\ Observe("reset", b, <<>>, <<>>, "ok", NoError, None)

(***************************************************************************)
(* _setup_, imports, exports                                               *)
(***************************************************************************)
SetupError(elq_object, obj_id, act_type) ==
  IF elq_object \notin ELQ_OBJECTS
    THEN Raise("TypeError", "not all arguments converted during string formatting")
  ELSE IF elq_object \in OBJECT_REQ_ID /\ obj_id = None
    THEN Raise("Exception", "obj_id required for '" \o elq_object \o "'")
  ELSE IF elq_object \in OBJECT_REQ_TYPE /\ act_type = None
    THEN Raise("Exception", "act_type required for '" \o elq_object \o "'")
  ELSE NoError

SetupArgs(job_type, elq_object, obj_id, act_type) ==
  [job_type |-> job_type, elq_object |-> elq_object, obj_id |-> obj_id,
   act_type |-> act_type]

_setup_(b, op, job_type, elq_object, obj_id, act_type) ==
  LET err == SetupError(elq_object, obj_id, act_type)
      args == SetupArgs(job_type, elq_object, obj_id, act_type)
  IN  /\ ref' = ref
      /\ IF err # NoError
           THEN /\ heap' = heap
                /\ Observe(op, b, args, <<>>, "error", err, None)
           ELSE /\ Store(b, [Job(b) EXCEPT !.job_type = job_type,
                                           !.elq_object = elq_object,
                                           !.obj_id = obj_id,
                                           !.act_type = act_type])
                /\ Observe(op, b, args, <<>>, "ok", NoError, None)

imports(b, elq_object, obj_id, act_type) ==
  _setup_(b, "imports", "imports", elq_object, obj_id, act_type)

exports(b, elq_object, obj_id, act_type) ==
  _setup_(b, "exports", "exports", elq_object, obj_id, act_type)

(***************************************************************************)
(* The collaborators bulk.py imports: the static field tables of           *)
(* system_fields.py and the response check of error_handling.py            *)
(***************************************************************************)
ACTIVITY_FIELDS ==
  [EmailOpen |-> <<[name |-> "ActivityId", statement |-> "{{Activity.Id}}"],
                   [name |-> "EmailAddress",
                    statement |-> "{{Activity.Field(EmailAddress)}}"]>>]

CONTACT_SYSTEM_FIELDS == <<[name |-> "Contact ID", statement |-> "{{Contact.Id}}"]>>

ACCOUNT_SYSTEM_FIELDS == <<[name |-> "Account ID", statement |-> "{{Account.Id}}"]>>

\* _elq_error_(req) raises when the response is not a success
_elq_error_(req) ==
  IF req.ok THEN NoError ELSE Raise("Exception", "remote error")

(***************************************************************************)
(* get_fields                                                              *)
(***************************************************************************)
fields_url(elq_object, obj_id, offset) ==
  IF elq_object \in OBJECT_REQ_ID
    THEN bulk_base \o "/" \o elq_object \o "/" \o obj_id \o "/fields?limit=1000"
           \o "&offset=" \o ToString(offset)
    ELSE bulk_base \o "/" \o elq_object \o "/fields?limit=1000"
           \o "&offset=" \o ToString(offset)

FieldsRequest(elq_object, obj_id, offset) ==
  [what |-> "fields", url |-> fields_url(elq_object, obj_id, offset),
   obj |-> elq_object, id |-> obj_id, offset |-> offset]

\* a loop that never reads hasMore and returns after its first page
fetch_first_page(elq_object, obj_id, pages, offset, fields, requests) ==
  LET req == pages[offset + 1]
      sent == Append(requests, FieldsRequest(elq_object, obj_id, offset))
  IN  IF _elq_error_(req) # NoError
        THEN [requests |-> sent, error |-> _elq_error_(req), result |-> None]
        ELSE [requests |-> sent, error |-> NoError, result |-> fields \o req.items]

\* the while loop of get_fields; pages[k + 1] is what the server answers to the
\* request with offset k
RECURSIVE fetch_pages(_, _, _, _, _, _)
fetch_pages(elq_object, obj_id, pages, offset, fields, requests) ==
  LET req == pages[offset + 1]
      sent == Append(requests, FieldsRequest(elq_object, obj_id, offset))
  IN  IF _elq_error_(req) # NoError
        THEN [requests |-> sent, error |-> _elq_error_(req), result |-> None]
      ELSE IF req.hasMore
        THEN fetch_pages(elq_object, obj_id, pages, offset + 1,
                         fields \o req.items, sent)
      ELSE [requests |-> sent, error |-> NoError, result |-> fields \o req.items]

get_fields_run(elq_object, obj_id, act_type, pages) ==
  IF elq_object = "activities"
    THEN IF act_type \in DOMAIN ACTIVITY_FIELDS
           THEN [requests |-> <<>>, error |-> NoError,
                 result |-> ACTIVITY_FIELDS[act_type]]
           ELSE [requests |-> <<>>, error |-> Raise("KeyError", act_type),
                 result |-> None]
    ELSE fetch_pages(elq_object, obj_id, pages, 0, <<>>, <<>>)

\* get_fields called on its own; with elq_object None the job's values are used
get_fields(b, elq_object, obj_id, act_type, pages) ==
  LET own == elq_object = None
      run == get_fields_run(IF own THEN Job(b).elq_object ELSE elq_object,
                            IF own THEN Job(b).obj_id ELSE obj_id,
                            IF own THEN Job(b).act_type ELSE act_type, pages)
  IN  /\ UNCHANGED <<heap, ref>>
      /\ Observe("get_fields", b,
                 [elq_object |-> elq_object, obj_id |-> obj_id,
                  act_type |-> act_type, pages |-> pages],
                 run.requests,
                 IF run.error = NoError THEN "ok" ELSE "error", run.error,
                 run.result)

(***************************************************************************)
(* Matching caller-supplied names against a catalog                        *)
(***************************************************************************)
\* the inner "for field in fields" loop: the positions of the matching
\* dictionaries, in catalog order
RECURSIVE matching(_, _, _, _)
matching(field_name, fields, by_internal, i) ==
  IF i > Len(fields) THEN <<>>
  ELSE LET field == fields[i]
           hit == IF by_internal
                    THEN field_name = field.internalName \/ field_name = field.name
                    ELSE field_name = field.name
       IN  (IF hit THEN <<i>> ELSE <<>>)
             \o matching(field_name, fields, by_internal, i + 1)

\* a resolution loop that passes over an unmatched name instead of raising
RECURSIVE resolve_skipping(_, _, _, _)
resolve_skipping(field_input, fields, by_internal, fields_output) ==
  IF field_input = <<>> THEN [error |-> NoError, fields_output |-> fields_output]
  ELSE resolve_skipping(Tail(field_input), fields, by_internal,
                        fields_output
                          \o matching(Head(field_input), fields, by_internal, 1))

\* the outer "for field_name in field_input" loop; fields_output holds
\* references (positions) to the catalog's dictionaries
RECURSIVE resolve(_, _, _, _)
resolve(field_input, fields, by_internal, fields_output) ==
  IF field_input = <<>> THEN [error |-> NoError, fields_output |-> fields_output]
  ELSE LET field_name == Head(field_input)
           found == matching(field_name, fields, by_internal, 1)
       IN  IF found = <<>>
             THEN [error |-> Raise("Exception", "field not found: " \o field_name),
                   fields_output |-> fields_output]
             ELSE resolve(Tail(field_input), fields, by_internal,
                          fields_output \o found)

Deref(objects, refs) == [k \in 1..Len(refs) |-> objects[refs[k]]]

ExtendFields(b, more) ==
  Store(b, [Job(b) EXCEPT !.fields = @ \o more])

(***************************************************************************)
(* add_fields                                                              *)
(***************************************************************************)
add_fields(b, field_input, pages) ==
  LET job == Job(b)
      run == get_fields_run(job.elq_object, job.obj_id, job.act_type, pages)
      res == resolve(field_input.names, run.result,
                     job.elq_object # "activities", <<>>)
      args == [field_input |-> field_input, pages |-> pages]
  IN  /\ ref' = ref
      /\ IF run.error # NoError
           THEN /\ heap' = heap
                /\ Observe("add_fields", b, args, run.requests, "error",
                           run.error, None)
         ELSE IF ~field_input.given
           THEN /\ ExtendFields(b, run.result)
                /\ Observe("add_fields", b, args, run.requests, "ok", NoError, TRUE)
         ELSE IF res.error # NoError
           THEN /\ heap' = heap
                /\ Observe("add_fields", b, args, run.requests, "error",
                           res.error, None)
         ELSE /\ ExtendFields(b, Deref(run.result, res.fields_output))
              /\ Observe("add_fields", b, args, run.requests, "ok", NoError, None)

(***************************************************************************)
(* add_system_fields                                                       *)
(***************************************************************************)
add_system_fields(b, field_input) ==
  LET job == Job(b)
      bound == job.elq_object \in {"contacts", "accounts"}
      fieldset == IF job.elq_object = "contacts" THEN CONTACT_SYSTEM_FIELDS
                  ELSE ACCOUNT_SYSTEM_FIELDS
      res == resolve(field_input.names, fieldset, FALSE, <<>>)
      args == [field_input |-> field_input]
  IN  /\ ref' = ref
      /\ IF ~bound
           THEN /\ heap' = heap
                /\ Observe("add_system_fields", b, args, <<>>, "error",
                           Raise("UnboundLocalError", "fieldset"), None)
         ELSE IF ~field_input.given
           THEN /\ ExtendFields(b, fieldset)
                /\ Observe("add_system_fields", b, args, <<>>, "ok", NoError, TRUE)
         ELSE IF res.error # NoError
           THEN /\ heap' = heap
                /\ Observe("add_system_fields", b, args, <<>>, "error",
                           res.error, None)
         ELSE /\ ExtendFields(b, Deref(fieldset, res.fields_output))
              /\ Observe("add_system_fields", b, args, <<>>, "ok", NoError, None)

(***************************************************************************)
(* add_linked_fields                                                       *)
(***************************************************************************)
\* a rewrite that has no branch for events
rewrite_without_events(statement, lnk_obj, elq_object, obj_id) ==
  IF lnk_obj = "contacts"
    THEN IF elq_object = "customobjects"
           THEN str_replace(statement, "Contact.",
                            "CustomObject[" \o obj_id \o "].Contact.")
           ELSE statement
  ELSE IF lnk_obj = "accounts"
    THEN str_replace(statement, "Account.", "Contact.Account.")
  ELSE statement

\* the statement of one dictionary after one pass of the rewrite loop's body
rewrite(statement, lnk_obj, elq_object, obj_id) ==
  IF lnk_obj = "contacts"
    THEN IF elq_object = "customobjects"
           THEN str_replace(statement, "Contact.",
                            "CustomObject[" \o obj_id \o "].Contact.")
         ELSE IF elq_object = "events"
           THEN str_replace(statement, "Contact.",
                            "Event[" \o obj_id \o "].Contact.")
         ELSE statement
  ELSE IF lnk_obj = "accounts"
    THEN str_replace(statement, "Account.", "Contact.Account.")
  ELSE statement

\* "for field in fields_output": each element is a reference, so a dictionary
\* listed twice is rewritten twice
RECURSIVE rewrite_all(_, _, _, _, _)
rewrite_all(objects, fields_output, lnk_obj, elq_object, obj_id) ==
  IF fields_output = <<>> THEN objects
  ELSE LET i == Head(fields_output)
       IN  rewrite_all([objects EXCEPT ![i].statement =
                          rewrite(@, lnk_obj, elq_object, obj_id)],
                       Tail(fields_output), lnk_obj, elq_object, obj_id)

add_linked_fields(b, lnk_obj, field_input, pages) ==
  LET job == Job(b)
      run == get_fields_run(lnk_obj, None, None, pages)
      res == resolve(field_input, run.result, TRUE, <<>>)
      objects == rewrite_all(run.result, res.fields_output, lnk_obj,
                             job.elq_object, job.obj_id)
      args == [lnk_obj |-> lnk_obj, field_input |-> field_input, pages |-> pages]
  IN  /\ ref' = ref
      /\ IF run.error # NoError
           THEN /\ heap' = heap
                /\ Observe("add_linked_fields", b, args, run.requests, "error",
                           run.error, None)
         ELSE IF res.error # NoError
           THEN /\ heap' = heap
                /\ Observe("add_linked_fields", b, args, run.requests, "error",
                           res.error, None)
         ELSE /\ ExtendFields(b, Deref(objects, res.fields_output))
              /\ Observe("add_linked_fields", b, args, run.requests, "ok",
                         NoError, None)

(***************************************************************************)
(* add_leadscore_fields                                                    *)
(***************************************************************************)
ModelRequest(model_id, name) ==
  [what |-> "models",
   url |-> IF model_id # None
             THEN bulk_base \o "/contacts/scoring/models/" \o model_id
             ELSE bulk_base \o "/contacts/scoring/models?q=\"name="
                    \o str_replace(name, " ", "*") \o "\"",
   obj |-> "contacts", id |-> model_id,
   name |-> IF model_id # None THEN None ELSE str_replace(name, " ", "*")]

add_leadscore_fields(b, model_id, name, req) ==
  LET args == [model_id |-> model_id, name |-> name, req |-> req]
      sent == <<ModelRequest(model_id, name)>>
  IN  /\ ref' = ref
      /\ IF model_id # None
           THEN IF _elq_error_(req) # NoError
                  THEN /\ heap' = heap
                       /\ Observe("add_leadscore_fields", b, args, sent, "error",
                                  _elq_error_(req), None)
                  ELSE /\ ExtendFields(b, req.fields)
                       /\ Observe("add_leadscore_fields", b, args, sent, "ok",
                                  NoError, None)
         ELSE IF name # None
           THEN IF _elq_error_(req) # NoError
                  THEN /\ heap' = heap
                       /\ Observe("add_leadscore_fields", b, args, sent, "error",
                                  _elq_error_(req), None)
                ELSE IF req.items = <<>>
                  THEN /\ heap' = heap
                       /\ Observe("add_leadscore_fields", b, args, sent, "error",
                                  Raise("IndexError", "list index out of range"),
                                  None)
                ELSE /\ ExtendFields(b, req.items[1].fields)
                     /\ Observe("add_leadscore_fields", b, args, sent, "ok",
                                NoError, None)
         ELSE /\ heap' = heap
              /\ Observe("add_leadscore_fields", b, args, <<>>, "error",
                         Raise("Exception", "model_id or name required"), None)

(***************************************************************************)
(* filter_exists_list                                                      *)
(***************************************************************************)
\* a template without the surrounding spaces
exists_temp_unpadded == "EXISTS('{statement}')"
exists_temp == " EXISTS('{statement}') "

\* exists_temp.format(statement=...): the replacement field is substituted and
\* the substituted text is not scanned again
format_statement(template, statement) ==
  str_replace(template, "{statement}", statement)

ListByIdRequest(elq_object, list_id) ==
  [what |-> "lists",
   url |-> bulk_base \o "/" \o elq_object \o "/lists/" \o list_id,
   obj |-> elq_object, id |-> list_id, name |-> None]

\* a name lookup that sends the name as given
ListByNameRequestVerbatim(elq_object, name) ==
  [what |-> "lists",
   url |-> bulk_base \o "/" \o elq_object \o "/lists?q=\"name=" \o name \o "\"",
   obj |-> elq_object, id |-> None, name |-> name]

ListByNameRequest(elq_object, name) ==
  [what |-> "lists",
   url |-> bulk_base \o "/" \o elq_object \o "/lists?q=\"name="
             \o str_replace(name, " ", "*") \o "\"",
   obj |-> elq_object, id |-> None, name |-> str_replace(name, " ", "*")]

AppendFilter(b, statement) ==
  Store(b, [Job(b) EXCEPT !.filters =
              Append(@, format_statement(exists_temp, statement))])

filter_exists_list(b, list_id, name, req) ==
  LET args == [list_id |-> list_id, name |-> name, req |-> req]
      by_id == <<ListByIdRequest(Job(b).elq_object, list_id)>>
      by_name == <<ListByNameRequest(Job(b).elq_object, name)>>
  IN  /\ ref' = ref
      /\ IF list_id # None
           THEN IF _elq_error_(req) # NoError
                  THEN /\ heap' = heap
                       /\ Observe("filter_exists_list", b, args, by_id, "error",
                                  _elq_error_(req), None)
                  ELSE /\ AppendFilter(b, req.statement)
                       /\ Observe("filter_exists_list", b, args, by_id, "ok",
                                  NoError, None)
         ELSE IF name # None
           THEN IF _elq_error_(req) # NoError
                  THEN /\ heap' = heap
                       /\ Observe("filter_exists_list", b, args, by_name, "error",
                                  _elq_error_(req), None)
                ELSE IF req.items = <<>>
                  THEN /\ heap' = heap
                       /\ Observe("filter_exists_list", b, args, by_name, "error",
                                  Raise("IndexError", "list index out of range"),
                                  None)
                ELSE /\ AppendFilter(b, req.items[1].statement)
                     /\ Observe("filter_exists_list", b, args, by_name, "ok",
                                NoError, None)
         ELSE /\ heap' = heap
              /\ Observe("filter_exists_list", b, args, <<>>, "error",
                         Raise("Exception", "list_id or name required"), None)

(***************************************************************************)
(* Specification of setup and reset alone                                  *)
(***************************************************************************)
SetupKinds == ELQ_OBJECTS \cup {"campaigns"}
SetupIds == {None, "5", "12"}
SetupActs == {None, "EmailOpen"}

SetupImports ==
  \E elq_object \in SetupKinds, obj_id \in SetupIds, act_type \in SetupActs :
    imports("a", elq_object, obj_id, act_type)

SetupExports ==
  \E elq_object \in SetupKinds, obj_id \in SetupIds, act_type \in SetupActs :
    exports("a", elq_object, obj_id, act_type)

SetupReset == reset("a")

NextSetup == SetupImports \/ SetupExports \/ SetupReset

SpecSetup == Init /\ [][NextSetup]_vars

(***************************************************************************)
(* Specification of the list filter builder                                *)
(***************************************************************************)
FilterKinds == {"contacts", "accounts", "events"}
ListIds == {None, "1", "27"}
ListNames == {None, "Test List 1", "VIP", " a  b "}
ListStatements == {"{{ContactList[1]}}", "{statement}", "it's {0}"}

ListRecord(name, statement) ==
  [name |-> name, statement |-> statement, uri |-> "/contacts/lists/1"]

ListRecords == {ListRecord("Test List 1", st) : st \in ListStatements}

Failure == [ok |-> FALSE]

\* what the server may answer to GET /{obj}/lists/{id}
ListByIdResponses ==
  {Failure} \cup
  {[ok |-> TRUE, name |-> r.name, statement |-> r.statement, uri |-> r.uri] :
     r \in ListRecords}

\* what the server may answer to GET /{obj}/lists?q="name=..."
ListByNameResponses ==
  {Failure, [ok |-> TRUE, items |-> <<>>]} \cup
  {[ok |-> TRUE, items |-> <<r>>] : r \in ListRecords} \cup
  {[ok |-> TRUE, items |-> <<r1, r2>>] : r1 \in ListRecords, r2 \in ListRecords}

FilterSetup ==
  \E elq_object \in FilterKinds :
    exports("a", elq_object, IF elq_object \in OBJECT_REQ_ID THEN "5" ELSE None,
            None)

FilterById ==
  /\ Len(Job("a").filters) < MaxFilters
  /\ \E list_id \in ListIds \ {None}, name \in ListNames,
        req \in ListByIdResponses :
       filter_exists_list("a", list_id, name, req)

FilterByName ==
  /\ Len(Job("a").filters) < MaxFilters
  /\ \E name \in ListNames \ {None}, req \in ListByNameResponses :
       filter_exists_list("a", None, name, req)

FilterNeither ==
  /\ Len(Job("a").filters) < MaxFilters
  /\ filter_exists_list("a", None, None, Failure)

FilterReset == reset("a")

NextFilter ==
  FilterSetup \/ FilterById \/ FilterByName \/ FilterNeither \/ FilterReset

SpecFilter == Init /\ [][NextFilter]_vars

(***************************************************************************)
(* The field catalogs the server holds                                     *)
(***************************************************************************)
C_EmailAddress ==
  [internalName |-> "C_EmailAddress", name |-> "Email Address",
   statement |-> "{{Contact.Field(C_EmailAddress)}}"]

C_FirstName ==
  [internalName |-> "C_FirstName", name |-> "First Name",
   statement |-> "{{Contact.Field(C_FirstName)}}"]

M_CompanyName ==
  [internalName |-> "M_CompanyName", name |-> "Company Name",
   statement |-> "{{Account.Field(M_CompanyName)}}"]

Email1 ==
  [internalName |-> "Email1", name |-> "Email",
   statement |-> "{{CustomObject[5].Field[10]}}"]

EmailAddressField ==
  [internalName |-> "EmailAddress", name |-> "Email Address",
   statement |-> "{{EmailAddress.Field(EmailAddress)}}"]

Catalog(elq_object) ==
  CASE elq_object = "contacts" -> <<C_EmailAddress, C_FirstName>>
    [] elq_object = "accounts" -> <<M_CompanyName>>
    [] elq_object \in {"customobjects", "events"} -> <<Email1>>
    [] elq_object = "emailaddresses" -> <<EmailAddressField>>
    [] OTHER -> <<>>

Page(items, hasMore) == [ok |-> TRUE, items |-> items, hasMore |-> hasMore]

\* the ways the server may answer the fields request for one object kind:
\* the whole catalog in one page, or a failure
Served(elq_object) ==
  LET all == Catalog(elq_object)
  IN  IF all = <<>> THEN {<<Failure>>}
      ELSE {<<Failure>>, <<Page(all, FALSE)>>}

\* names a caller asks add_fields for
FieldNames == {"First Name", "nonexistent"}

\* names a caller asks add_linked_fields for
LinkedNames(lnk_obj) ==
  CASE lnk_obj = "contacts" -> {"Email Address", "C_EmailAddress"}
    [] lnk_obj = "accounts" -> {"Company Name", "nonexistent"}
    [] OTHER -> {"Email Address"}

RECURSIVE Lists(_, _)
Lists(S, n) ==
  IF n = 0 THEN {<<>>}
  ELSE Lists(S, n - 1) \cup
       {Append(l, x) : l \in {m \in Lists(S, n - 1) : Len(m) = n - 1}, x \in S}

\* the non-empty field_input lists that leave job.fields within MaxFields when
\* every name matches one field
FieldInputs(names, fields) == Lists(names, MaxFields - Len(fields)) \ {<<>>}

(***************************************************************************)
(* Specification of the field resolver and the linked-field rewriter       *)
(***************************************************************************)
FieldsKinds == {"contacts", "customobjects", "events", "activities"}
LinkedKinds == {"contacts", "accounts", "emailaddresses"}

FieldsSetup ==
  \E elq_object \in FieldsKinds :
    exports("a", elq_object,
            CASE elq_object = "customobjects" -> "5"
              [] elq_object = "events" -> "12"
              [] OTHER -> None,
            IF elq_object \in OBJECT_REQ_TYPE THEN "EmailOpen" ELSE None)

FieldsAddAll ==
  /\ Len(Job("a").fields) < MaxFields
  /\ \E pages \in Served(Job("a").elq_object) :
       add_fields("a", NoInput, pages)

FieldsAdd ==
  /\ Len(Job("a").fields) < MaxFields
  /\ \E names \in FieldInputs(FieldNames, Job("a").fields), pages \in Served(Job("a").elq_object) :
       add_fields("a", Input(names), pages)

FieldsAddLinked ==
  /\ Len(Job("a").fields) < MaxFields
  /\ \E lnk_obj \in LinkedKinds :
       \E names \in FieldInputs(LinkedNames(lnk_obj), Job("a").fields), pages \in Served(lnk_obj) :
         add_linked_fields("a", lnk_obj, names, pages)

FieldsReset == reset("a")

NextFields ==
  FieldsSetup \/ FieldsAddAll \/ FieldsAdd \/ FieldsAddLinked \/ FieldsReset

SpecFields == Init /\ [][NextFields]_vars

(***************************************************************************)
(* Specification of the paginated catalog retrieval                        *)
(***************************************************************************)
PageResponses ==
  {Failure, Page(<<C_EmailAddress>>, TRUE), Page(<<C_FirstName>>, TRUE),
   Page(<<C_FirstName>>, FALSE)}

Terminal(req) == ~req.ok \/ ~req.hasMore

\* a finite sequence of pages: the server's last answer is a failure or a page
\* with hasMore false
PageSeqs ==
  {pages \in Lists(PageResponses, MaxPages) :
     pages # <<>> /\ Terminal(pages[Len(pages)])}

GetFieldsArgs ==
  {<<None, None, None>>, <<"events", "9", None>>, <<"activities", None, "Bounce">>}

PagesSetup ==
  \E elq_object \in {"contacts", "customobjects", "activities"} :
    imports("a", elq_object, IF elq_object \in OBJECT_REQ_ID THEN "5" ELSE None,
            IF elq_object \in OBJECT_REQ_TYPE THEN "EmailOpen" ELSE None)

PagesGetFields ==
  \E args \in GetFieldsArgs, pages \in PageSeqs :
    get_fields("a", args[1], args[2], args[3], pages)

NextPages == PagesSetup \/ PagesGetFields

SpecPages == Init /\ [][NextPages]_vars

(***************************************************************************)
(* Specification of whole sessions: two Bulk instances, every builder      *)
(* operation.  Instance "a" runs every operation; instance "b" runs a      *)
(* short session of exports, filter_exists_list and reset next to it.      *)
(***************************************************************************)
Rating ==
  [name |-> "Rating", statement |-> "{{Contact.LeadScore.Model[3].Rating}}"]

ModelResponses(model_id) ==
  IF model_id # None
    THEN {[ok |-> TRUE, fields |-> <<Rating>>]}
    ELSE {Failure, [ok |-> TRUE, items |-> <<>>],
          [ok |-> TRUE, items |-> <<[fields |-> <<Rating>>]>>]}

ListResponses(list_id) ==
  IF list_id # None
    THEN {Failure, [ok |-> TRUE, statement |-> "{{ContactList[1]}}"]}
    ELSE {[ok |-> TRUE, items |-> <<ListRecord("VIP", "{{ContactList[1]}}")>>]}

IdOrName == {<<"3", None>>, <<None, "VIP">>, <<None, None>>}

Imports ==
  \E obj_id \in {None, "5"} : imports("a", "customobjects", obj_id, None)

Exports(b) ==
  \E elq_object \in {"contacts", "campaigns"} : exports(b, elq_object, None, None)

Reset(b) == reset(b)

FilterExistsList(b) ==
  /\ Len(Job(b).filters) < MaxFilters
  /\ \E by \in IdOrName :
       \E req \in ListResponses(by[1]) : filter_exists_list(b, by[1], by[2], req)

GetFields ==
  \E pages \in Served(Job("a").elq_object) :
    get_fields("a", None, None, None, pages)

AddFields ==
  /\ Len(Job("a").fields) < MaxFields
  /\ \E field_input \in {NoInput, Input(<<"nonexistent">>)},
        pages \in Served(Job("a").elq_object) :
       add_fields("a", field_input, pages)

AddSystemFields ==
  /\ Len(Job("a").fields) < MaxFields
  /\ \E field_input \in {NoInput, Input(<<"Contact ID">>)} :
       add_system_fields("a", field_input)

AddLinkedFields ==
  /\ Len(Job("a").fields) < MaxFields
  /\ \E pages \in Served("accounts") :
       add_linked_fields("a", "accounts", <<"Company Name">>, pages)

AddLeadscoreFields ==
  /\ Len(Job("a").fields) < MaxFields
  /\ \E by \in IdOrName :
       \E req \in ModelResponses(by[1]) :
         add_leadscore_fields("a", by[1], by[2], req)

Next ==
  \/ \E b \in Bulks : Exports(b) \/ Reset(b) \/ FilterExistsList(b)
  \/ Imports
  \/ GetFields
  \/ AddFields
  \/ AddSystemFields
  \/ AddLinkedFields
  \/ AddLeadscoreFields

Spec == Init /\ [][Next]_vars

(***************************************************************************)
(* Properties.  Each reads the observation of the last call: who called    *)
(* (last.bulk), with what (last.args), what was requested (last.requests), *)
(* how it ended, and the jobs as they were before the call (last.before).  *)
(***************************************************************************)
Was == last.before[last.bulk]
Now == Job(last.bulk)

Added(before, after) == SubSeq(after, Len(before) + 1, Len(after))

\* sub occurs in s
Contains(s, sub) ==
  \E j \in 1..(Len(s) - Len(sub) + 1) : SubSeq(s, j, j + Len(sub) - 1) = sub

\* new is orig with one occurrence of old replaced by rep
ReplacedOnce(orig, new, old, rep) ==
  \E j \in 1..(Len(orig) - Len(old) + 1) :
    /\ SubSeq(orig, j, j + Len(old) - 1) = old
    /\ new = SubSeq(orig, 1, j - 1) \o rep
               \o SubSeq(orig, j + Len(old), Len(orig))

\* the items of the first n pages, in order
RECURSIVE Concatenation(_, _)
Concatenation(pages, n) ==
  IF n = 0 THEN <<>> ELSE Concatenation(pages, n - 1) \o pages[n].items

\* the catalog the last call fetched over the network
Fetched == Concatenation(last.args.pages, Len(last.requests))

\* C1: for customobjects and events, under imports and under exports, setup
\* without a parent id fails with the "obj_id required" exception, and setup
\* with a parent id succeeds and leaves job.elq_object and job.obj_id equal to
\* the values given.
C1_SetupParentId ==
  (last.op \in {"imports", "exports"}
     /\ last.args.elq_object \in {"customobjects", "events"}) =>
    IF last.args.obj_id = None
      THEN /\ last.outcome = "error"
           /\ last.error =
                Raise("Exception",
                      "obj_id required for '" \o last.args.elq_object \o "'")
      ELSE /\ last.outcome = "ok"
           /\ Now.elq_object = last.args.elq_object
           /\ Now.obj_id = last.args.obj_id
           /\ Now.job_type = last.op

C1_Witness ==
  /\ last.op = "imports"
  /\ last.args.elq_object = "events"
  /\ last.args.obj_id = "12"
  /\ last.outcome = "ok"
  /\ Was.elq_object = "customobjects"
  /\ Was.obj_id = "5"

\* C2: after a successful filter_exists_list(list_id=i), job.filters is the
\* earlier filters, unchanged and in order, followed by exactly one new element,
\* the string " EXISTS('<statement>') " with the looked-up record's statement
\* in it verbatim.
C2_FilterById ==
  (last.op = "filter_exists_list" /\ last.args.list_id # None
     /\ last.outcome = "ok") =>
    /\ Len(Now.filters) = Len(Was.filters) + 1
    /\ SubSeq(Now.filters, 1, Len(Was.filters)) = Was.filters
    /\ Now.filters[Len(Now.filters)]
         = " EXISTS('" \o last.args.req.statement \o "') "

C2_Witness ==
  /\ last.op = "filter_exists_list"
  /\ last.args.list_id = "1"
  /\ last.args.name = None
  /\ last.outcome = "ok"
  /\ last.args.req.statement = "{{ContactList[1]}}"
  /\ Was.filters # <<>>
  /\ Now.filters[Len(Now.filters)] = " EXISTS('{{ContactList[1]}}') "

\* C3: filter_exists_list(name=n) issues exactly one lookup, on the job's object
\* type, whose name parameter is n with every space replaced by '*'; when it
\* succeeds it appends " EXISTS('<statement>') " for the statement of the first
\* returned match, which is the string the lookup by id appends for that record.
C3_FilterByName ==
  (last.op = "filter_exists_list" /\ last.args.list_id = None
     /\ last.args.name # None) =>
    /\ Len(last.requests) = 1
    /\ LET r == last.requests[1]
           n == last.args.name
       IN  /\ r.what = "lists"
           /\ r.obj = Was.elq_object
           /\ Len(r.name) = Len(n)
           /\ \A i \in 1..Len(n) :
                Char(r.name, i) = IF Char(n, i) = " " THEN "*" ELSE Char(n, i)
           /\ r.url = bulk_base \o "/" \o Was.elq_object \o "/lists?q=\"name="
                        \o r.name \o "\""
           /\ (n = "Test List 1" /\ Was.elq_object = "contacts") =>
                r.url = bulk_base \o "/contacts/lists?q=\"name=Test*List*1\""
    /\ last.outcome = "ok" =>
         /\ last.args.req.items # <<>>
         /\ Now.filters = Append(Was.filters,
                                 " EXISTS('" \o last.args.req.items[1].statement
                                   \o "') ")

C3_Witness ==
  /\ last.op = "filter_exists_list"
  /\ last.args.list_id = None
  /\ last.args.name = "Test List 1"
  /\ last.outcome = "ok"
  /\ Was.elq_object = "contacts"
  /\ Len(last.args.req.items) = 2
  /\ last.args.req.items[1].statement # last.args.req.items[2].statement
  /\ last.requests[1].name = "Test*List*1"

\* C4: a filter_exists_list call that gives neither list_id nor name, and a call
\* that gives both, fails, issues no lookup request and leaves job.filters
\* unchanged.
C4_ExactlyOne ==
  (last.op = "filter_exists_list"
     /\ (last.args.list_id = None <=> last.args.name = None)) =>
    /\ last.outcome = "error"
    /\ last.requests = <<>>
    /\ Now.filters = Was.filters

\* the catalog add_fields resolved names against, when it got one
Resolvable ==
  IF Was.elq_object = "activities"
    THEN Was.act_type \in DOMAIN ACTIVITY_FIELDS
    ELSE last.requests # <<>> /\ last.args.pages[Len(last.requests)].ok

ResolvedAgainst ==
  IF Was.elq_object = "activities" THEN ACTIVITY_FIELDS[Was.act_type] ELSE Fetched

NoMatch(field_name, fields, elq_object) ==
  \A i \in 1..Len(fields) :
    /\ field_name # fields[i].name
    /\ elq_object # "activities" => field_name # fields[i].internalName

\* C5: when a name of an add_fields batch matches no catalog entry, the call
\* fails with "field not found: <name>" for an unmatched name and job.fields is
\* exactly what it was before the call, also when earlier names of the batch
\* matched and when earlier calls had appended fields.
C5_AllOrNothing ==
  (last.op = "add_fields" /\ last.args.field_input.given /\ Resolvable
     /\ \E k \in 1..Len(last.args.field_input.names) :
          NoMatch(last.args.field_input.names[k], ResolvedAgainst,
                  Was.elq_object)) =>
    /\ last.outcome = "error"
    /\ \E k \in 1..Len(last.args.field_input.names) :
         /\ NoMatch(last.args.field_input.names[k], ResolvedAgainst,
                    Was.elq_object)
         /\ last.error = Raise("Exception", "field not found: "
                                 \o last.args.field_input.names[k])
    /\ Now.fields = Was.fields

C5_Witness ==
  /\ last.op = "add_fields"
  /\ last.outcome = "error"
  /\ Was.elq_object = "contacts"
  /\ Resolvable
  /\ Len(last.args.field_input.names) = 2
  /\ ~NoMatch(last.args.field_input.names[1], ResolvedAgainst, Was.elq_object)
  /\ NoMatch(last.args.field_input.names[2], ResolvedAgainst, Was.elq_object)

\* C6: on a customobjects job with parent id p, every field that a successful
\* add_linked_fields('contacts', names) appends has the statement of its
\* catalog entry with 'Contact.' rewritten once to 'CustomObject[p].Contact.',
\* for every list of names.
C6_RewrittenOnce ==
  (last.op = "add_linked_fields" /\ last.outcome = "ok"
     /\ last.args.lnk_obj = "contacts" /\ Was.elq_object = "customobjects") =>
    \A k \in 1..Len(Added(Was.fields, Now.fields)) :
      LET field == Added(Was.fields, Now.fields)[k]
      IN  \E i \in 1..Len(Fetched) :
            /\ Fetched[i].internalName = field.internalName
            /\ ReplacedOnce(Fetched[i].statement, field.statement, "Contact.",
                            "CustomObject[" \o Was.obj_id \o "].Contact.")

\* C7: for a non-activity kind, get_fields requests the pages with offsets
\* 0, 1, 2, ..., goes on exactly while the last response has hasMore true, stops
\* after the first response with hasMore false and returns the items of all
\* fetched pages in fetch order; a failing page request ends the call with the
\* remote error and no further request.
C7_Pagination ==
  LET kind == IF last.args.elq_object = None THEN Was.elq_object
              ELSE last.args.elq_object
      pages == last.args.pages
      n == Len(last.requests)
  IN  (last.op = "get_fields" /\ kind # "activities") =>
        /\ n \in 1..Len(pages)
        /\ \A k \in 1..n :
             /\ last.requests[k].what = "fields"
             /\ last.requests[k].obj = kind
             /\ last.requests[k].offset = k - 1
        /\ \A k \in 1..(n - 1) : pages[k].ok /\ pages[k].hasMore
        /\ IF pages[n].ok
             THEN /\ ~pages[n].hasMore
                  /\ last.outcome = "ok"
                  /\ last.result = Concatenation(pages, n)
             ELSE /\ last.outcome = "error"
                  /\ last.error = Raise("Exception", "remote error")

C7_Witness ==
  /\ last.op = "get_fields"
  /\ last.args.elq_object = None
  /\ Was.elq_object = "customobjects"
  /\ last.outcome = "ok"
  /\ Len(last.requests) = 3
  /\ last.requests[3].offset = 2
  /\ last.result = <<C_EmailAddress, C_FirstName, C_FirstName>>

\* C8: reset leaves the job equal to the job of a freshly constructed Bulk
\* object, whatever builder calls came before; no call alters the blank
\* template or the job of another Bulk instance.
C8_ResetBlank ==
  /\ heap["BLANK_JOB"]
       = [filters |-> <<>>, fields |-> <<>>, job_type |-> None,
          elq_object |-> None, obj_id |-> None, act_type |-> None,
          options |-> <<>>]
  /\ last.op = "reset" =>
       /\ Now.filters = <<>> /\ Now.fields = <<>>
       /\ Now.job_type = None /\ Now.elq_object = None
       /\ Now.obj_id = None /\ Now.act_type = None
       /\ Now.options = <<>>
  /\ last.op # "__init__" =>
       \A other \in Bulks \ {last.bulk} : Job(other) = last.before[other]

C8_Witness ==
  /\ last.op = "reset"
  /\ last.bulk = "a"
  /\ Was.fields # <<>>
  /\ Was.filters # <<>>
  /\ Was.elq_object = "customobjects"
  /\ Was.obj_id = "5"
  /\ Job("b").filters # <<>>
  /\ Job("b").elq_object = "contacts"

\* the pairs (linked kind, job's kind) the rewrite loop has a rule for, the
\* root token the rule looks for and the scoped path it puts in its place
HasRule(lnk_obj, elq_object) ==
  \/ lnk_obj = "contacts" /\ elq_object \in {"customobjects", "events"}
  \/ lnk_obj = "accounts"

Root(lnk_obj) == IF lnk_obj = "contacts" THEN "Contact." ELSE "Account."

Scoped(lnk_obj, elq_object, obj_id) ==
  IF lnk_obj = "accounts" THEN "Contact.Account."
  ELSE IF elq_object = "customobjects"
    THEN "CustomObject[" \o obj_id \o "].Contact."
  ELSE "Event[" \o obj_id \o "].Contact."

\* C9 as stated: on a job that has been set up, no field that add_linked_fields
\* appended from another kind's catalog keeps the catalog's statement.
C9_NeverOriginal ==
  (last.op = "add_linked_fields" /\ last.outcome = "ok"
     /\ Was.elq_object \in ELQ_OBJECTS
     /\ last.args.lnk_obj # Was.elq_object) =>
    \A k \in 1..Len(Added(Was.fields, Now.fields)) :
      \A i \in 1..Len(Fetched) :
        Fetched[i].internalName = Added(Was.fields, Now.fields)[k].internalName
          => Added(Was.fields, Now.fields)[k].statement # Fetched[i].statement

\* C9 as amended: a field appended by add_linked_fields no longer has the
\* catalog's statement, and carries the path scoped to the job's kind, when the
\* pair has a rewrite rule (contacts linked to a customobjects or events job,
\* accounts linked to any job) and the catalog's statement has the rule's root
\* token; for every other pair the statement is the catalog's, unchanged.
C9_RewrittenWhereRuled ==
  (last.op = "add_linked_fields" /\ last.outcome = "ok") =>
    \A k \in 1..Len(Added(Was.fields, Now.fields)) :
      \A i \in 1..Len(Fetched) :
        LET field == Added(Was.fields, Now.fields)[k]
            lnk_obj == last.args.lnk_obj
        IN  Fetched[i].internalName = field.internalName =>
              IF HasRule(lnk_obj, Was.elq_object)
                   /\ Contains(Fetched[i].statement, Root(lnk_obj))
                THEN /\ field.statement # Fetched[i].statement
                     /\ Contains(field.statement,
                                 Scoped(lnk_obj, Was.elq_object, Was.obj_id))
                ELSE field.statement = Fetched[i].statement

C9_Witness ==
  /\ last.op = "add_linked_fields"
  /\ last.outcome = "ok"
  /\ last.args.lnk_obj = "contacts"
  /\ Was.elq_object = "events"
  /\ Was.fields # <<>>
  /\ Now.fields[Len(Now.fields)].statement
       = "{{Event[12].Contact.Field(C_EmailAddress)}}"

\* C10: every lookup that get_fields, add_fields, add_linked_fields or
\* filter_exists_list issues targets an object kind of the closed set, with a
\* parent id that is not None when the kind requires one; a failed setup leaves
\* job_type, elq_object, obj_id and act_type as they were.
C10_LookupsOnValidKinds ==
  /\ last.op \in {"get_fields", "add_fields", "add_linked_fields",
                  "filter_exists_list"} =>
       \A k \in 1..Len(last.requests) :
         /\ last.requests[k].obj \in ELQ_OBJECTS
         /\ (last.requests[k].what = "fields"
               /\ last.requests[k].obj \in OBJECT_REQ_ID)
              => last.requests[k].id # None
  /\ (last.op \in {"imports", "exports"} /\ last.outcome = "error") =>
       /\ Now.job_type = Was.job_type
       /\ Now.elq_object = Was.elq_object
       /\ Now.obj_id = Was.obj_id
       /\ Now.act_type = Was.act_type

====
